---- MODULE Spec2Model ----
(***************************************************************************)
(* The polling / batching / checkpointing pipeline of the two scripts      *)
(* gather_predictions.py and gather_bus_updates.py.                        *)
(*                                                                         *)
(* The remote BusTime service is the environment: every call of query_api  *)
(* receives one response drawn from a small set of responses.  A Python    *)
(* dict is a function from strings, a Python list a sequence, and a Python *)
(* string that the code takes apart (a timestamp, a joined id list) a      *)
(* sequence of its pieces.                                                 *)
(***************************************************************************)
EXTENDS Integers, Sequences, FiniteSets, TLC

VARIABLES
    script,             \* which of the two scripts runs
    pc,                 \* position of the script
    i,                  \* loop variable of the main loop
    now,                \* gather_predictions.py: run start, int(time.time())
    CALLS_COUNT,        \* global call counter
    vehicles,           \* vehicle buffer
    predictions,        \* prediction buffer (gather_predictions.py)
    vehicles_now,       \* result of this tick's get_vehicles
    gi,                 \* loop variable of get_predictions_for_vehicles
    total_predictions,  \* accumulator of get_predictions_for_vehicles
    files,              \* output directory: file name -> rows
    writes,             \* every to_csv call so far, in order
    requests,           \* every requests.get so far, in order
    error,              \* the exception that ended the script, or "none"
    printed,            \* what the final print wrote, or <<>>
    tick0               \* the state at the start of the current tick

vars == <<script, pc, i, now, CALLS_COUNT, vehicles, predictions, vehicles_now,
          gi, total_predictions, files, writes, requests, error, printed, tick0>>

----------------------------------------------------------------------------
(* Bounds of the model *)

\* number_iterations of gather_predictions.py, scaled down (1440)
MaxTicks == 4

\* the flush period of both scripts, scaled down (600 and 120)
FlushEvery == 2

\* longest vehicle list handed to get_predictions_for_vehicles in SpecFetch
MaxFetchVehicles == 23

\* longest vehicle list of a tick in SpecCount, more than one group of ten
MaxLoopFleet == 11

----------------------------------------------------------------------------
(* Program constants *)

GroupSize == 10

HTTP_OK == 200

VEHICLES_ENDPOINT == "/getvehicles"

PREDICTIONS_ENDPOINT == "/getpredictions"

DATAFEED_NAME == "Port Authority Bus"

BUSTIME_API_KEY == "key"

Scripts == {"gather_predictions", "gather_bus_updates"}

ROUTE_ID(s) ==
    IF s = "gather_predictions" THEN "61A,61B"
    ELSE "61A,61B,61C,61D,71A,71B,71C"

\* 1440 and 3600, scaled down. The longer run has one tick more, so that one
\* script's tick count is a multiple of the flush period and the other's is
\* not: the for loop and the modulo test are the same for both.
number_iterations(s) ==
    IF s = "gather_predictions" THEN MaxTicks ELSE MaxTicks + 1

flush_every(s) == FlushEvery

StartTimes == {1604620800}

----------------------------------------------------------------------------
(* Python helpers *)

\* ','.join(parts)
RECURSIVE Join(_)
Join(parts) ==
    IF Len(parts) = 0 THEN <<>>
    ELSE IF Len(parts) = 1 THEN <<parts[1]>>
    ELSE <<parts[1], ",">> \o Join(Tail(parts))

\* s.replace(' ', '@') on a string given as the sequence of its characters
Replace(s) == [k \in DOMAIN s |-> IF s[k] = " " THEN "@" ELSE s[k]]

\* vehicles[a:b] with 0-based, end-exclusive bounds
Slice(s, a, b) == SubSeq(s, a + 1, b)

Min(a, b) == IF a < b THEN a ELSE b

----------------------------------------------------------------------------
(* The remote service: what a call can be answered with *)

\* A timestamp "D S" (the service's "YYYYMMDD HH:MM:SS", shortened) as the
\* sequence of its characters.
Timestamp(d, s) == <<d, " ", s>>

\* One entry of the 'vehicle' list of a /getvehicles response.  The service
\* sends more fields (here 'rt') than the scripts keep.
RawVehicle(vid, tm, spd) ==
    [vid |-> vid, tmstmp |-> tm, lat |-> "40.44", lon |-> "-79.94",
     des |-> "Downtown", pid |-> 4521, pdist |-> 1000, tatripid |-> "trip",
     spd |-> spd, psgld |-> "EMPTY", rt |-> "61A"]

\* An entry that lacks the 'psgld' field
RawVehicleNoLoad(vid, tm, spd) ==
    [vid |-> vid, tmstmp |-> tm, lat |-> "40.44", lon |-> "-79.94",
     des |-> "Downtown", pid |-> 4521, pdist |-> 1000, tatripid |-> "trip",
     spd |-> spd, rt |-> "61A"]

\* One entry of the 'prd' list of a /getpredictions response
RawPrediction(typ, vid, stpid) ==
    [tmstmp |-> Timestamp("1", "1"), typ |-> typ, stpid |-> stpid, vid |-> vid,
     prdtm |-> Timestamp("1", "9"), tatripid |-> "trip", dstp |-> 500,
     rt |-> "61A"]

\* An arrival entry that lacks the 'dstp' field
RawPredictionNoDistance(vid, stpid) ==
    [tmstmp |-> Timestamp("1", "1"), typ |-> "A", stpid |-> stpid, vid |-> vid,
     prdtm |-> Timestamp("1", "9"), tatripid |-> "trip", rt |-> "61A"]

\* An HTTP response: the status code and the JSON text, already decoded.
Response(code, body) == [status_code |-> code, body |-> body]

\* A non-success status
TransportFailure == Response(500, "error" :> "Internal Server Error")

\* A success status whose body lacks the 'bustime-response' envelope
EnvelopeMissing == Response(HTTP_OK, "error" :> "unexpected")

\* A success status whose envelope holds an error and no list
ListMissing ==
    Response(HTTP_OK, "bustime-response" :> ("error" :> "No data found"))

VehicleList(l) == Response(HTTP_OK, "bustime-response" :> ("vehicle" :> l))

PredictionList(l) == Response(HTTP_OK, "bustime-response" :> ("prd" :> l))

\* The vehicle lists the service answers with in the main loop: one vehicle;
\* two vehicles, the first with the later timestamp and the second the
\* vehicle of the first list at the same timestamp with another speed.
LoopVehicleLists ==
    { <<RawVehicle("1", Timestamp("1", "1"), 0)>>,
      <<RawVehicle("2", Timestamp("1", "2"), 0),
        RawVehicle("1", Timestamp("1", "1"), 5)>> }

VehicleResponses ==
    {TransportFailure, EnvelopeMissing, ListMissing,
     VehicleList(<<RawVehicleNoLoad("1", Timestamp("1", "1"), 0)>>)}
    \cup {VehicleList(l) : l \in LoopVehicleLists}

\* The prediction lists the service answers a group of vehicle ids with:
\* entries for the first vehicle of the group.  Arrivals are for the stops
\* s1 and s2 and departures for s3 and s4, so that a record shows the type
\* of the entry it was made from.
LoopPredictionLists(vid) ==
    { <<RawPrediction("A", vid, "s1")>>,
      <<RawPrediction("D", vid, "s3"), RawPrediction("A", vid, "s2")>> }

FetchPredictionLists(vid) ==
    LoopPredictionLists(vid)
    \cup { <<>>,
           <<RawPrediction("D", vid, "s3")>>,
           <<RawPrediction("A", vid, "s2"), RawPrediction("D", vid, "s4"),
             RawPrediction("A", vid, "s1")>> }

PredictionFailures(vid) ==
    {TransportFailure, EnvelopeMissing, ListMissing,
     PredictionList(<<RawPredictionNoDistance(vid, "s1")>>)}

----------------------------------------------------------------------------
(* query_api *)

\* What a Python call ends with: a returned value or a raised exception.
Return(v) == [kind |-> "return", value |-> v]

Raise(exc) == [kind |-> "raise", exc |-> exc]

\* A returned value that query_api's callers test against None
Dict(d) == [is_none |-> FALSE, dict |-> d]

None == [is_none |-> TRUE]

\* The request query_api sends: the caller's params with key, format and
\* rtpidatafeed added.
Request(endpoint, params) ==
    [endpoint |-> endpoint,
     params |-> ("key" :> BUSTIME_API_KEY) @@ ("format" :> "json")
                @@ ("rtpidatafeed" :> DATAFEED_NAME) @@ params]

\* The counter incremented in the success branch only
CountOnSuccessOnly(count, resp) ==
    IF resp.status_code = HTTP_OK THEN count + 1 ELSE count

\* The counter after a call that was answered with resp
CountAfterCall(count, resp) == count + 1

\* query_api with a non-success status raised (response.raise_for_status())
query_api_raising(resp) ==
    IF resp.status_code = HTTP_OK
    THEN IF "bustime-response" \in DOMAIN resp.body
         THEN Return(Dict(resp.body["bustime-response"]))
         ELSE Raise("KeyError")
    ELSE Raise("HTTPError")

\* What query_api ends with when the service answers resp
query_api(resp) ==
    IF resp.status_code = HTTP_OK
    THEN IF "bustime-response" \in DOMAIN resp.body
         THEN Return(Dict(resp.body["bustime-response"]))
         ELSE Raise("KeyError")
    ELSE Return(None)

----------------------------------------------------------------------------
(* get_vehicles *)

VehicleParams(route_ids) == ("rt" :> route_ids) @@ ("tmres" :> "s")

VehicleKeys ==
    {"vid", "tmstmp", "lat", "lon", "des", "pid", "pdist", "tatripid", "spd",
     "psgld"}

VehicleRecord(v) ==
    [id |-> v.vid, timestamp |-> v.tmstmp, lat |-> v.lat, lon |-> v.lon,
     destination |-> v.des, pattern_id |-> v.pid, pattern_distance |-> v.pdist,
     trip_id |-> v.tatripid, speed |-> v.spd, passenger_load |-> v.psgld]

HasVehicleKeys(v) == VehicleKeys \subseteq DOMAIN v

\* get_vehicles leaving out the entries that lack a field
get_vehicles_skipping(resp) ==
    LET r == query_api(resp) IN
    IF r.kind = "raise" THEN r
    ELSE IF r.value.is_none \/ "vehicle" \notin DOMAIN r.value.dict
    THEN Return(<<>>)
    ELSE LET complete == SelectSeq(r.value.dict["vehicle"], HasVehicleKeys) IN
         Return([k \in DOMAIN complete |-> VehicleRecord(complete[k])])

\* What get_vehicles ends with when the service answers resp
get_vehicles(resp) ==
    LET r == query_api(resp) IN
    IF r.kind = "raise" THEN r
    ELSE IF r.value.is_none \/ "vehicle" \notin DOMAIN r.value.dict
    THEN Return(<<>>)
    ELSE LET raw_vehicles == r.value.dict["vehicle"] IN
         IF \E k \in DOMAIN raw_vehicles :
                ~(VehicleKeys \subseteq DOMAIN raw_vehicles[k])
         THEN Raise("KeyError")
         ELSE Return([k \in DOMAIN raw_vehicles |->
                         VehicleRecord(raw_vehicles[k])])

----------------------------------------------------------------------------
(* get_predictions *)

PredictionParams(vehicle_ids) == ("vid" :> vehicle_ids) @@ ("tmres" :> "s")

PredictionKeys == {"tmstmp", "stpid", "vid", "prdtm", "tatripid", "dstp"}

PredictionRecord(p) ==
    [timestamp |-> p.tmstmp, stop_id |-> p.stpid, vehicle_id |-> p.vid,
     predicted_time |-> p.prdtm, trip_id |-> p.tatripid,
     distance_to_stop |-> p.dstp]

\* A comprehension without its condition
KeepAll(p) == TRUE

\* The condition of the list comprehension
IsArrival(p) == p.typ = "A"

\* get_predictions with a failed call raised instead of skipped
get_predictions_raising(resp) ==
    LET r == query_api(resp) IN
    IF r.kind = "raise" THEN r
    ELSE IF r.value.is_none THEN Raise("TypeError")
    ELSE IF "prd" \notin DOMAIN r.value.dict THEN Return(<<>>)
    ELSE LET raw_predictions == r.value.dict["prd"] IN
         IF \E k \in DOMAIN raw_predictions :
                \/ "typ" \notin DOMAIN raw_predictions[k]
                \/ /\ IsArrival(raw_predictions[k])
                   /\ ~(PredictionKeys \subseteq DOMAIN raw_predictions[k])
         THEN Raise("KeyError")
         ELSE LET kept == SelectSeq(raw_predictions, IsArrival) IN
              Return([k \in DOMAIN kept |-> PredictionRecord(kept[k])])

\* What get_predictions ends with when the service answers resp
get_predictions(resp) ==
    LET r == query_api(resp) IN
    IF r.kind = "raise" THEN r
    ELSE IF r.value.is_none \/ "prd" \notin DOMAIN r.value.dict
    THEN Return(<<>>)
    ELSE LET raw_predictions == r.value.dict["prd"] IN
         IF \E k \in DOMAIN raw_predictions :
                \/ "typ" \notin DOMAIN raw_predictions[k]
                \/ /\ IsArrival(raw_predictions[k])
                   /\ ~(PredictionKeys \subseteq DOMAIN raw_predictions[k])
         THEN Raise("KeyError")
         ELSE LET kept == SelectSeq(raw_predictions, IsArrival) IN
              Return([k \in DOMAIN kept |-> PredictionRecord(kept[k])])

----------------------------------------------------------------------------
(* get_predictions_for_vehicles *)

\* A group end that leaves out the group's last vehicle
SliceEndOffByOne(g, n) == Min(g + GroupSize - 1, n)

\* The end of the group that starts at index g (0-based, exclusive)
SliceEnd(g, n) == Min(g + GroupSize, n)

\* vehicles[i:min(i + 10, len(vehicles))]
Group(vs, g) == Slice(vs, g, SliceEnd(g, Len(vs)))

\* ','.join([str(v['id']) for v in group])
JoinedIds(group) == Join([k \in DOMAIN group |-> group[k].id])

----------------------------------------------------------------------------
(* The checkpoint files *)

\* pd.DataFrame(buffer): one row per record, labelled by its position
DataFrame(buffer) == [k \in DOMAIN buffer |-> [index |-> k - 1, row |-> buffer[k]]]

RECURSIVE DropRowsFrom(_, _)
DropRowsFrom(df, k) ==
    IF k > Len(df) THEN <<>>
    ELSE (IF \E j \in 1..(k - 1) : df[j].row = df[k].row THEN <<>>
          ELSE <<df[k]>>)
         \o DropRowsFrom(df, k + 1)

\* df.drop_duplicates(): the rows that equal no earlier row, each with the
\* label it had
df_drop_duplicates(df) == DropRowsFrom(df, 1)

\* pd.DataFrame(buffer) with no row dropped
keep_duplicates(buffer) == [k \in DOMAIN buffer |-> [index |-> k - 1, row |-> buffer[k]]]

\* drop_duplicates(keep='last'): the rows that equal no later row
RECURSIVE DropFromLast(_, _)
DropFromLast(buffer, k) ==
    IF k > Len(buffer) THEN <<>>
    ELSE (IF \E j \in (k + 1)..Len(buffer) : buffer[j] = buffer[k] THEN <<>>
          ELSE <<[index |-> k - 1, row |-> buffer[k]]>>)
         \o DropFromLast(buffer, k + 1)

drop_duplicates_keep_last(buffer) == DropFromLast(buffer, 1)

\* pd.DataFrame(buffer).drop_duplicates()
drop_duplicates(buffer) == df_drop_duplicates(DataFrame(buffer))

\* f'predictions{now}.csv' and f'vehicles{now}.csv'
RunFileName(kind, t) == <<kind, ToString(t), ".csv">>

\* f'vehicles{from_date}-{to_date}.csv'
RangeFileName(from_date, to_date) ==
    <<"vehicles">> \o from_date \o <<"-">> \o to_date \o <<".csv">>

\* df.to_csv(name)
Written(fs, name, rows) ==
    [n \in DOMAIN fs \cup {name} |-> IF n = name THEN rows ELSE fs[n]]

\* A to_csv call: the tick, the file, the rows written and the number of
\* records the buffer held
WriteEvent(tick, kind, name, rows, buffer) ==
    [tick |-> tick, kind |-> kind, name |-> name, rows |-> rows,
     buffered |-> Len(buffer)]

----------------------------------------------------------------------------
(* The scripts *)

LogEntry(endpoint, params, resp) ==
    [request |-> Request(endpoint, params), response |-> resp]

\* The exception that ended the script and the statement that raised it
Aborted(exc, at) == [exc |-> exc, at |-> at]

NoError == Aborted("none", "none")

NoResponse == Response(0, <<>>)

TickStart(resp) ==
    [CALLS_COUNT |-> CALLS_COUNT, vehicles |-> vehicles,
     predictions |-> predictions, response |-> resp]

Init ==
    /\ script \in Scripts
    /\ pc = "get_vehicles"
    /\ i = 0
    /\ now \in IF script = "gather_predictions" THEN StartTimes ELSE {0}
    /\ CALLS_COUNT = 0
    /\ vehicles = <<>>
    /\ predictions = <<>>
    /\ vehicles_now = <<>>
    /\ gi = 0
    /\ total_predictions = <<>>
    /\ files = <<>>
    /\ writes = <<>>
    /\ requests = <<>>
    /\ error = NoError
    /\ printed = <<>>
    /\ tick0 = TickStart(NoResponse)

\* vehicles_now = get_vehicles(ROUTE_ID), the first statement of a tick
GetVehicles(resp) ==
    /\ pc = "get_vehicles"
    /\ LET out == get_vehicles(resp) IN
        /\ requests' = Append(requests,
               LogEntry(VEHICLES_ENDPOINT, VehicleParams(ROUTE_ID(script)), resp))
        /\ CALLS_COUNT' = CountAfterCall(CALLS_COUNT, resp)
        /\ tick0' = TickStart(resp)
        /\ IF out.kind = "raise"
           THEN /\ pc' = "aborted"
                /\ error' = Aborted(out.exc, "get_vehicles")
                /\ UNCHANGED <<vehicles_now, gi, total_predictions>>
           ELSE /\ vehicles_now' = out.value
                /\ pc' = IF script = "gather_predictions"
                         THEN "get_predictions_for_vehicles"
                         ELSE "append_vehicles"
                /\ gi' = 0
                /\ total_predictions' = <<>>
                /\ UNCHANGED error
    /\ UNCHANGED <<script, i, now, vehicles, predictions, files, writes, printed>>

\* An iteration that takes its group from all vehicles collected so far
GetPredictionsForBuffer(resp) ==
    /\ pc = "get_predictions_for_vehicles"
    /\ gi < Len(vehicles_now)
    /\ LET vehicle_ids == JoinedIds(Group(vehicles \o vehicles_now, gi))
           out == get_predictions(resp)
       IN
        /\ requests' = Append(requests,
               LogEntry(PREDICTIONS_ENDPOINT, PredictionParams(vehicle_ids), resp))
        /\ CALLS_COUNT' = CountAfterCall(CALLS_COUNT, resp)
        /\ IF out.kind = "raise"
           THEN /\ pc' = "aborted"
                /\ error' = Aborted(out.exc, "get_predictions")
                /\ UNCHANGED <<gi, total_predictions>>
           ELSE /\ total_predictions' = total_predictions \o out.value
                /\ gi' = gi + GroupSize
                /\ UNCHANGED <<pc, error>>
    /\ UNCHANGED <<script, i, now, vehicles, predictions, vehicles_now, files,
                   writes, printed, tick0>>

\* An iteration that puts the group's predictions before the earlier ones
GetPredictionsPrepending(resp) ==
    /\ pc = "get_predictions_for_vehicles"
    /\ gi < Len(vehicles_now)
    /\ LET vehicle_ids == JoinedIds(Group(vehicles_now, gi))
           out == get_predictions(resp)
       IN
        /\ requests' = Append(requests,
               LogEntry(PREDICTIONS_ENDPOINT, PredictionParams(vehicle_ids), resp))
        /\ CALLS_COUNT' = CountAfterCall(CALLS_COUNT, resp)
        /\ IF out.kind = "raise"
           THEN /\ pc' = "aborted"
                /\ error' = Aborted(out.exc, "get_predictions")
                /\ UNCHANGED <<gi, total_predictions>>
           ELSE /\ total_predictions' = out.value \o total_predictions
                /\ gi' = gi + GroupSize
                /\ UNCHANGED <<pc, error>>
    /\ UNCHANGED <<script, i, now, vehicles, predictions, vehicles_now, files,
                   writes, printed, tick0>>

\* One iteration of the loop of get_predictions_for_vehicles(vehicles_now)
GetPredictions(resp) ==
    /\ pc = "get_predictions_for_vehicles"
    /\ gi < Len(vehicles_now)
    /\ LET vehicle_ids == JoinedIds(Group(vehicles_now, gi))
           out == get_predictions(resp)
       IN
        /\ requests' = Append(requests,
               LogEntry(PREDICTIONS_ENDPOINT, PredictionParams(vehicle_ids), resp))
        /\ CALLS_COUNT' = CountAfterCall(CALLS_COUNT, resp)
        /\ IF out.kind = "raise"
           THEN /\ pc' = "aborted"
                /\ error' = Aborted(out.exc, "get_predictions")
                /\ UNCHANGED <<gi, total_predictions>>
           ELSE /\ total_predictions' = total_predictions \o out.value
                /\ gi' = gi + GroupSize
                /\ UNCHANGED <<pc, error>>
    /\ UNCHANGED <<script, i, now, vehicles, predictions, vehicles_now, files,
                   writes, printed, tick0>>

\* The loop of get_predictions_for_vehicles ends:
\* predictions += total_predictions
ReturnPredictions ==
    /\ pc = "get_predictions_for_vehicles"
    /\ gi >= Len(vehicles_now)
    /\ predictions' = predictions \o total_predictions
    /\ pc' = "append_vehicles"
    /\ UNCHANGED <<script, i, now, CALLS_COUNT, vehicles, vehicles_now, gi,
                   total_predictions, files, writes, requests, error, printed,
                   tick0>>

\* vehicles = vehicles_now
AppendVehiclesReplacing ==
    /\ pc = "append_vehicles"
    /\ vehicles' = vehicles_now
    /\ pc' = "flush"
    /\ UNCHANGED <<script, i, now, CALLS_COUNT, predictions, vehicles_now, gi,
                   total_predictions, files, writes, requests, error, printed,
                   tick0>>

\* vehicles += vehicles_now
AppendVehicles ==
    /\ pc = "append_vehicles"
    /\ vehicles' = vehicles \o vehicles_now
    /\ pc' = "flush"
    /\ UNCHANGED <<script, i, now, CALLS_COUNT, predictions, vehicles_now, gi,
                   total_predictions, files, writes, requests, error, printed,
                   tick0>>

\* A test that also flushes after the last tick
FlushDueOrLast(s, k) ==
    (k + 1) % flush_every(s) = 0 \/ k + 1 = number_iterations(s)

\* if (i + 1) % N == 0
FlushDue(s, k) == (k + 1) % flush_every(s) = 0

\* gather_predictions.py: the body of the if
FlushPredictionsScript ==
    LET df_predictions == drop_duplicates(predictions)
        df_vehicles == drop_duplicates(vehicles)
        pname == RunFileName("predictions", now)
        vname == RunFileName("vehicles", now)
    IN
    /\ files' = Written(Written(files, pname, df_predictions), vname, df_vehicles)
    /\ writes' = writes \o <<WriteEvent(i + 1, "predictions", pname, df_predictions, predictions),
                            WriteEvent(i + 1, "vehicles", vname, df_vehicles, vehicles)>>
    /\ pc' = "sleep"
    /\ UNCHANGED error

\* gather_bus_updates.py: the body of the if
FlushVehiclesScript ==
    IF Len(vehicles) = 0
    THEN \* vehicles[0] raises
         /\ pc' = "aborted"
         /\ error' = Aborted("IndexError", "flush")
         /\ UNCHANGED <<files, writes>>
    ELSE LET from_date == Replace(vehicles[1].timestamp)
             to_date == Replace(vehicles[Len(vehicles)].timestamp)
             df_vehicles == drop_duplicates(vehicles)
             name == RangeFileName(from_date, to_date)
         IN
         /\ files' = Written(files, name, df_vehicles)
         /\ writes' = Append(writes, WriteEvent(i + 1, "vehicles", name, df_vehicles, vehicles))
         /\ pc' = "sleep"
         /\ UNCHANGED error

\* A checkpoint that empties the buffers it has written
FlushClearing ==
    /\ pc = "flush"
    /\ IF FlushDue(script, i)
       THEN /\ IF script = "gather_predictions"
               THEN FlushPredictionsScript
               ELSE FlushVehiclesScript
            /\ vehicles' = <<>>
            /\ predictions' = <<>>
       ELSE /\ pc' = "sleep"
            /\ UNCHANGED <<files, writes, error, vehicles, predictions>>
    /\ UNCHANGED <<script, i, now, CALLS_COUNT, vehicles_now, gi,
                   total_predictions, requests, printed, tick0>>

\* The if statement that ends the tick's work
Flush ==
    /\ pc = "flush"
    /\ IF FlushDue(script, i)
       THEN IF script = "gather_predictions"
            THEN FlushPredictionsScript
            ELSE FlushVehiclesScript
       ELSE /\ pc' = "sleep"
            /\ UNCHANGED <<files, writes, error>>
    /\ UNCHANGED <<script, i, now, CALLS_COUNT, vehicles, predictions,
                   vehicles_now, gi, total_predictions, requests, printed, tick0>>

\* time.sleep(...) and the step of the for loop
Sleep ==
    /\ pc = "sleep"
    /\ i' = i + 1
    /\ pc' = IF i + 1 < number_iterations(script) THEN "get_vehicles" ELSE "report"
    /\ UNCHANGED <<script, now, CALLS_COUNT, vehicles, predictions, vehicles_now,
                   gi, total_predictions, files, writes, requests, error, printed,
                   tick0>>

\* print(f'Called the API {CALLS_COUNT} times.')
Report ==
    /\ pc = "report"
    /\ printed' = <<CALLS_COUNT>>
    /\ pc' = "done"
    /\ UNCHANGED <<script, i, now, CALLS_COUNT, vehicles, predictions,
                   vehicles_now, gi, total_predictions, files, writes, requests,
                   error, tick0>>

\* What the service may answer the request for the group at index g with
LoopPredictionResponses(vs, g) ==
    IF g < Len(vs)
    THEN LET vid == Group(vs, g)[1].id IN
         PredictionFailures(vid)
         \cup {PredictionList(l) : l \in LoopPredictionLists(vid)}
    ELSE {}

Next ==
    \/ \E resp \in VehicleResponses : GetVehicles(resp)
    \/ \E resp \in LoopPredictionResponses(vehicles_now, gi) : GetPredictions(resp)
    \/ ReturnPredictions
    \/ AppendVehicles
    \/ Flush
    \/ Sleep
    \/ Report

Spec == Init /\ [][Next]_vars

----------------------------------------------------------------------------
(* get_predictions_for_vehicles on vehicle lists of every length up to       *)
(* MaxFetchVehicles: the first tick of gather_predictions.py, from the       *)
(* return of get_vehicles to the return of get_predictions_for_vehicles.     *)

\* A vehicle list of n vehicles with the ids "1" .. "n"
Fleet(n) == [k \in 1..n |-> RawVehicle(ToString(k), Timestamp("1", "1"), 0)]

FetchPredictionResponses(vs, g) ==
    IF g < Len(vs)
    THEN LET vid == Group(vs, g)[1].id IN
         PredictionFailures(vid)
         \cup {PredictionList(l) : l \in FetchPredictionLists(vid)}
    ELSE {}

InitFetch ==
    /\ script = "gather_predictions"
    /\ pc = "get_predictions_for_vehicles"
    /\ i = 0
    /\ now \in StartTimes
    /\ CALLS_COUNT = 1
    /\ vehicles = <<>>
    /\ predictions = <<>>
    /\ \E n \in 0..MaxFetchVehicles :
          /\ vehicles_now = get_vehicles(VehicleList(Fleet(n))).value
          /\ requests = <<LogEntry(VEHICLES_ENDPOINT,
                                   VehicleParams(ROUTE_ID(script)),
                                   VehicleList(Fleet(n)))>>
          /\ tick0 = [CALLS_COUNT |-> 0, vehicles |-> <<>>, predictions |-> <<>>,
                      response |-> VehicleList(Fleet(n))]
    /\ gi = 0
    /\ total_predictions = <<>>
    /\ files = <<>>
    /\ writes = <<>>
    /\ error = NoError
    /\ printed = <<>>

NextFetch ==
    \/ \E resp \in FetchPredictionResponses(vehicles_now, gi) : GetPredictions(resp)
    \/ ReturnPredictions

SpecFetch == InitFetch /\ [][NextFetch]_vars

----------------------------------------------------------------------------
(* The scripts with ticks that need one call and ticks that need two calls   *)
(* for the predictions: vehicle lists of GroupSize and of MaxLoopFleet        *)
(* entries, and calls that fail.                                              *)

CountVehicleResponses ==
    {TransportFailure, EnvelopeMissing, ListMissing,
     VehicleList(Fleet(GroupSize)), VehicleList(Fleet(MaxLoopFleet))}

CountPredictionResponses(vs, g) ==
    IF g < Len(vs)
    THEN {TransportFailure,
          PredictionList(<<RawPrediction("A", Group(vs, g)[1].id, "s1")>>)}
    ELSE {}

NextCount ==
    \/ \E resp \in CountVehicleResponses : GetVehicles(resp)
    \/ \E resp \in CountPredictionResponses(vehicles_now, gi) : GetPredictions(resp)
    \/ ReturnPredictions
    \/ AppendVehicles
    \/ Flush
    \/ Sleep
    \/ Report

SpecCount == Init /\ [][NextCount]_vars

----------------------------------------------------------------------------
(* What the claims read off the state *)

Range(s) == {s[k] : k \in DOMAIN s}

RECURSIVE Concat(_)
Concat(ss) == IF Len(ss) = 0 THEN <<>> ELSE Head(ss) \o Concat(Tail(ss))

IsVehicleCall(e) == e.request.endpoint = VEHICLES_ENDPOINT

IsPredictionCall(e) == e.request.endpoint = PREDICTIONS_ENDPOINT

PredictionCalls == SelectSeq(requests, IsPredictionCall)

NotComma(c) == c # ","

\* The vehicle ids a logged predictions request asks for
GroupOf(e) == SelectSeq(e.request.params["vid"], NotComma)

Failed(resp) == resp.status_code # 200

HasList(resp, key) ==
    /\ resp.status_code = 200
    /\ "bustime-response" \in DOMAIN resp.body
    /\ key \in DOMAIN resp.body["bustime-response"]

\* The raw entries of the list a response holds
Entries(resp, key) ==
    IF HasList(resp, key) THEN Range(resp.body["bustime-response"][key]) ELSE {}

\* The raw prediction entries the service has sent so far
LoggedPredictionEntries ==
    UNION {Entries(requests[k].response, "prd") : k \in DOMAIN requests}

----------------------------------------------------------------------------
\* C1: after any sequence of query_api invocations, successful or failed,
\* the call counter equals the number of invocations made since the start.
C1_CounterEqualsInvocations == CALLS_COUNT = Len(requests)

\* Three calls have been made, one answered with a non-success status and
\* one with a success status.
C1_Witness ==
    /\ Len(requests) >= 3
    /\ \E k \in DOMAIN requests : Failed(requests[k].response)
    /\ \E k \in DOMAIN requests : ~Failed(requests[k].response)

\* C2: when get_predictions_for_vehicles returns for a list of N vehicles,
\* it has issued ceil(N/10) calls, one per group; the groups are
\* consecutive slices of the input in input order, every group but the last
\* of exactly 10 ids, the last of 1 to 10, and their concatenation is the
\* list of the input's ids.
C2_GroupsPartitionInput ==
    pc = "append_vehicles" =>
        LET ids == [k \in DOMAIN vehicles_now |-> vehicles_now[k].id]
            groups == [k \in DOMAIN PredictionCalls |-> GroupOf(PredictionCalls[k])]
            n == Len(ids)
            m == Len(groups)
        IN
        /\ m = (n + 9) \div 10
        /\ CALLS_COUNT = 1 + m
        /\ \A k \in 1..(m - 1) : Len(groups[k]) = 10
        /\ m > 0 => Len(groups[m]) \in 1..10
        /\ \A k \in 1..m :
              PredictionCalls[k].request.params["vid"] = Join(groups[k])
        /\ Concat(groups) = ids

\* The function has returned for 23 vehicles, asked for in groups of
\* 10, 10 and 3.
C2_Witness ==
    /\ pc = "append_vehicles"
    /\ Len(vehicles_now) = 23
    /\ [k \in DOMAIN PredictionCalls |-> Len(GroupOf(PredictionCalls[k]))]
           = <<10, 10, 3>>

\* C3: in every state, every record of the prediction buffer, of the
\* accumulator of get_predictions_for_vehicles and of every prediction
\* checkpoint file is made from a raw entry of type 'A' and from no entry
\* of another type.
C3_OnlyArrivalsRetained ==
    LET complete == {p \in LoggedPredictionEntries :
                        PredictionKeys \cup {"typ"} \subseteq DOMAIN p}
        arrivals == {PredictionRecord(p) : p \in {q \in complete : q.typ = "A"}}
        others == {PredictionRecord(p) : p \in {q \in complete : q.typ # "A"}}
        retained == Range(predictions) \cup Range(total_predictions)
                    \cup UNION {{r.row : r \in Range(writes[k].rows)} :
                                  k \in {j \in DOMAIN writes :
                                            writes[j].kind = "predictions"}}
    IN
    /\ retained \subseteq arrivals
    /\ retained \cap others = {}

\* A prediction checkpoint with rows has been written after the service
\* sent a departure entry beside an arrival entry.
C3_Witness ==
    /\ \E p \in LoggedPredictionEntries : p.typ = "D"
    /\ predictions # <<>>
    /\ \E k \in DOMAIN writes :
          writes[k].kind = "predictions" /\ writes[k].rows # <<>>

\* C4: gather_predictions.py, a tick whose vehicles call was answered with
\* a non-success status: get_vehicles returned an empty sequence, the call
\* counter is one more than at the start of the tick, both buffers are what
\* they were at the start of the tick, and the script has not been ended
\* by an exception.
C4_FailedTickContributesNothing ==
    (/\ script = "gather_predictions"
     /\ requests # <<>>
     /\ Failed(tick0.response))
    => /\ vehicles_now = <<>>
       /\ CALLS_COUNT = tick0.CALLS_COUNT + 1
       /\ vehicles = tick0.vehicles
       /\ predictions = tick0.predictions
       /\ pc \in {"get_predictions_for_vehicles", "append_vehicles", "flush",
                  "sleep", "get_vehicles", "report", "done"}
       /\ error = NoError

\* The loop is at the start of the next tick after a tick whose call
\* failed and that left two non-empty buffers as they were.
C4_Witness ==
    /\ script = "gather_predictions"
    /\ pc = "get_vehicles"
    /\ i >= 1
    /\ Failed(tick0.response)
    /\ tick0.response.status_code = 500
    /\ vehicles # <<>>
    /\ predictions # <<>>

\* A logged call whose answer is one the scripts provide for: a non-success
\* status, or an envelope with no list or with a list of complete entries.
Provided(e) ==
    LET key == IF IsVehicleCall(e) THEN "vehicle" ELSE "prd"
        keys == IF IsVehicleCall(e) THEN VehicleKeys
                ELSE PredictionKeys \cup {"typ"}
    IN
    \/ Failed(e.response)
    \/ /\ "bustime-response" \in DOMAIN e.response.body
       /\ \A p \in Entries(e.response, key) : keys \subseteq DOMAIN p

\* C5: whatever the calls were answered with (success, a non-success
\* status, a response without a vehicle or prediction list), the loop is
\* not ended by an exception: it runs all its ticks and then prints the
\* final call count.
C5_LoopNeverAborts ==
    (\A k \in DOMAIN requests : Provided(requests[k]))
    => /\ pc # "aborted"
       /\ pc = "done" => (i = number_iterations(script) /\ printed = <<CALLS_COUNT>>)

JustFlushed == pc = "sleep" /\ writes # <<>> /\ writes[Len(writes)].tick = i + 1

\* C7 as stated: no two rows of a vehicle checkpoint file share the pair
\* (id, timestamp).
C7_KeyIsUniqueInFile ==
    \A k \in DOMAIN writes :
        writes[k].kind = "vehicles"
        => \A a, b \in DOMAIN writes[k].rows :
              (/\ writes[k].rows[a].row.id = writes[k].rows[b].row.id
               /\ writes[k].rows[a].row.timestamp = writes[k].rows[b].row.timestamp)
              => a = b

\* C7, amended: no two rows of a vehicle checkpoint file are equal in every
\* field, and every record of the buffer is a row of the file: two records
\* with the same id and timestamp collapse to one row exactly when all
\* their other fields are equal too.
C7_ExactDuplicatesCollapse ==
    /\ \A k \in DOMAIN writes :
          writes[k].kind = "vehicles"
          => \A a, b \in DOMAIN writes[k].rows :
                writes[k].rows[a].row = writes[k].rows[b].row => a = b
    /\ JustFlushed
       => {r.row : r \in Range(writes[Len(writes)].rows)} = Range(vehicles)

\* A vehicle file has just been written that holds two rows with the same
\* id and timestamp and different speeds, from a buffer that also held an
\* exact duplicate.
C7_Witness ==
    /\ JustFlushed
    /\ Len(writes[Len(writes)].rows) < Len(vehicles)
    /\ \E a, b \in Range(writes[Len(writes)].rows) :
          /\ a.row.id = b.row.id
          /\ a.row.timestamp = b.row.timestamp
          /\ a.row.speed # b.row.speed

\* The ticks whose work (fetch, appends, flush if due) has been run
TicksRun ==
    IF pc = "sleep" \/ (pc = "aborted" /\ error.at = "flush") THEN i + 1 ELSE i

\* C8: when k ticks have run, floor(k / flushEveryNTicks) flushes have
\* happened, after the ticks that are multiples of flushEveryNTicks, each
\* writing one file per record type of the script.
C8_FlushEveryNTicks ==
    (pc \in {"get_vehicles", "sleep", "report", "done"}
     \/ (pc = "aborted" /\ error.at = "flush"))
    => LET types == IF script = "gather_predictions"
                    THEN {"predictions", "vehicles"} ELSE {"vehicles"}
       IN \A t \in types :
             LET w == SelectSeq(writes, LAMBDA e : e.kind = t) IN
             /\ Len(w) = TicksRun \div FlushEvery
             /\ \A k \in DOMAIN w : w[k].tick = k * FlushEvery

\* The vehicle records and the arrival records the service has sent so far
LoggedVehicleRecords ==
    {VehicleRecord(v) :
        v \in UNION {Entries(requests[k].response, "vehicle") : k \in DOMAIN requests}}

LoggedArrivalRecords ==
    {PredictionRecord(p) : p \in {q \in LoggedPredictionEntries : q.typ = "A"}}

\* C9: the files written by the flush after tick k hold exactly the
\* distinct records collected in ticks 1..k, each once, and the rows of a
\* checkpoint include all rows of every earlier checkpoint of the run and
\* record type.
C9_CheckpointIsCumulative ==
    /\ JustFlushed
       => \A k \in DOMAIN writes :
             writes[k].tick = i + 1
             => /\ {r.row : r \in Range(writes[k].rows)}
                     = IF writes[k].kind = "vehicles" THEN LoggedVehicleRecords
                       ELSE LoggedArrivalRecords
                /\ \A a, b \in DOMAIN writes[k].rows :
                      writes[k].rows[a].row = writes[k].rows[b].row => a = b
    /\ \A a, b \in DOMAIN writes :
          (a < b /\ writes[a].kind = writes[b].kind)
          => Range(writes[a].rows) \subseteq Range(writes[b].rows)

\* The second flush has just written a vehicle file with rows of the first
\* flush and rows collected since, from a buffer with duplicates.
C9_Witness ==
    /\ JustFlushed
    /\ Len(writes[Len(writes)].rows) < Len(vehicles)
    /\ \E a \in DOMAIN writes :
          /\ a < Len(writes)
          /\ writes[a].kind = "vehicles"
          /\ writes[a].rows # <<>>
          /\ Len(writes[a].rows) < Len(writes[Len(writes)].rows)

TypeA(p) == p.typ = "A"

\* What an answered group is to contribute: the records of its arrival
\* entries in the order of the response, nothing when the call failed or
\* the response holds no prediction list
Contribution(resp) ==
    IF HasList(resp, "prd")
    THEN LET kept == SelectSeq(resp.body["bustime-response"]["prd"], TypeA) IN
         [k \in DOMAIN kept |-> PredictionRecord(kept[k])]
    ELSE <<>>

\* C10: a group call answered with a non-success status does not end
\* get_predictions_for_vehicles: when the function returns it has issued
\* ceil(N/10) calls, a call for every group, and its result is the
\* concatenation of the groups' contributions, empty for a failed group.
C10_FailedGroupIsSkipped ==
    /\ pc = "aborted" => ~Failed(requests[Len(requests)].response)
    /\ pc = "append_vehicles"
       => /\ Len(PredictionCalls) = (Len(vehicles_now) + 9) \div 10
          /\ total_predictions
                = Concat([k \in DOMAIN PredictionCalls |->
                             Contribution(PredictionCalls[k].response)])
          /\ predictions = total_predictions

\* The function has returned after three group calls of which the first
\* failed and a later one contributed records.
C10_Witness ==
    /\ pc = "append_vehicles"
    /\ Len(PredictionCalls) = 3
    /\ Failed(PredictionCalls[1].response)
    /\ Contribution(PredictionCalls[3].response) # <<>>
    /\ total_predictions # <<>>

\* The answer to the last call lacks the 'bustime-response' envelope
LastAnswerLacksEnvelope ==
    /\ requests # <<>>
    /\ requests[Len(requests)].response.status_code = 200
    /\ "bustime-response" \notin DOMAIN requests[Len(requests)].response.body

\* C11: a response with a success status and no envelope key is not raised
\* as an error: the fetcher that made the call returns an empty sequence
\* and the loop continues.
C11_MissingEnvelopeIsEmpty ==
    LastAnswerLacksEnvelope
    => /\ pc # "aborted"
       /\ error = NoError
       /\ IsVehicleCall(requests[Len(requests)]) => vehicles_now = <<>>

\* C12: deduplication is idempotent: two flushes between which no record
\* was appended to the buffer write the same rows in the same order, and
\* deduplicating the rows of a written file again returns them unchanged.
C12_DeduplicationIsIdempotent ==
    /\ \A a, b \in DOMAIN writes :
          (a < b /\ writes[a].kind = writes[b].kind
                 /\ writes[a].buffered = writes[b].buffered)
          => writes[a].rows = writes[b].rows
    /\ \A a \in DOMAIN writes :
          df_drop_duplicates(writes[a].rows) = writes[a].rows

\* Two flushes of the same buffer, which holds a record twice
C12_Witness ==
    \E a, b \in DOMAIN writes :
       /\ a < b
       /\ writes[a].kind = writes[b].kind
       /\ writes[a].tick < writes[b].tick
       /\ writes[a].buffered = writes[b].buffered
       /\ Len(writes[a].rows) < writes[a].buffered
       /\ writes[a].rows = writes[b].rows

IsPrefix(s, t) == Len(s) <= Len(t) /\ s = SubSeq(t, 1, Len(s))

\* C13: a flush changes neither buffer, and every step of the run leaves
\* the earlier value of each buffer as a prefix of the later one: records
\* are only appended, never removed or altered.
C13_BuffersOnlyGrow ==
    [][/\ IsPrefix(vehicles, vehicles')
       /\ IsPrefix(predictions, predictions')
       /\ pc = "flush" => (vehicles' = vehicles /\ predictions' = predictions)]_vars

\* The second checkpoint of a run has been written: the vehicle buffer
\* still holds what it held at the first one, records that the files hold
\* once included, and has grown since
C13_Witness ==
    /\ JustFlushed
    /\ \E a, b \in DOMAIN writes :
          /\ writes[a].kind = "vehicles" /\ writes[b].kind = "vehicles"
          /\ writes[a].tick < writes[b].tick
          /\ 0 < writes[a].buffered
          /\ writes[a].buffered < writes[b].buffered
          /\ writes[b].buffered = Len(vehicles)
          /\ Len(writes[b].rows) < Len(vehicles)

VehicleCalls == SelectSeq(requests, IsVehicleCall)

\* The tick after which the last flush of a whole run is due
LastFlushTick(s) == (number_iterations(s) \div flush_every(s)) * flush_every(s)

Buffer(kind) == IF kind = "vehicles" THEN vehicles ELSE predictions

\* The rows of all files that hold records of one kind
FileRecords(kind) ==
    UNION {{files[writes[k].name][j].row : j \in DOMAIN files[writes[k].name]} :
              k \in {a \in DOMAIN writes : writes[a].kind = kind}}

\* The records of the vehicle list the t-th vehicles call was answered with
TickVehicleRecords(t) ==
    LET resp == VehicleCalls[t].response IN
    IF HasList(resp, "vehicle")
    THEN [j \in DOMAIN resp.body["bustime-response"]["vehicle"] |->
             VehicleRecord(resp.body["bustime-response"]["vehicle"][j])]
    ELSE <<>>

\* The vehicle records of the ticks after tick t, in the order of arrival
VehicleRecordsSince(t) ==
    Concat([k \in 1..(Len(VehicleCalls) - t) |-> TickVehicleRecords(t + k)])

\* C14: the loop ends after exactly totalTicks ticks and no flush follows
\* the last one that was due. The files written then hold the distinct
\* records the buffers held at that flush; when totalTicks is a multiple of
\* flushEveryNTicks that is every record collected, and when it is not, the
\* records appended since are in the buffer at the exit and a record among
\* them that was not collected before is in no file.
C14_NoFinalFlush ==
    pc \in {"report", "done"}
    => /\ i = number_iterations(script)
       /\ Len(VehicleCalls) = number_iterations(script)
       /\ \A k \in DOMAIN writes : writes[k].tick <= LastFlushTick(script)
       /\ \E k \in DOMAIN writes : writes[k].tick = LastFlushTick(script)
       /\ \A k \in DOMAIN writes :
             writes[k].tick = LastFlushTick(script)
             => LET buffer == Buffer(writes[k].kind)
                    flushed == SubSeq(buffer, 1, writes[k].buffered)
                    tail == SubSeq(buffer, writes[k].buffered + 1, Len(buffer))
                IN
                /\ writes[k].buffered <= Len(buffer)
                /\ files[writes[k].name] = drop_duplicates(flushed)
                /\ FileRecords(writes[k].kind) = Range(flushed)
                /\ IF number_iterations(script) % flush_every(script) = 0
                   THEN /\ tail = <<>>
                        /\ FileRecords(writes[k].kind) = Range(buffer)
                   ELSE /\ writes[k].kind = "vehicles" => tail = VehicleRecordsSince(writes[k].tick)
                        /\ \A r \in Range(tail) \ Range(flushed) :
                              r \notin FileRecords(writes[k].kind)

\* A run whose tick count is not a multiple of the flush period has ended:
\* its last tick brought a record that no earlier tick had, which is in the
\* buffer and in no file
C14_Witness ==
    /\ pc = "done"
    /\ number_iterations(script) % flush_every(script) # 0
    /\ \E k \in DOMAIN writes :
          /\ writes[k].tick = LastFlushTick(script)
          /\ writes[k].kind = "vehicles"
          /\ writes[k].buffered < Len(vehicles)
          /\ \E r \in Range(vehicles) : r \notin FileRecords("vehicles")

\* A run whose tick count is a multiple of the flush period has ended: the
\* last tick's records are in the files
C14_WitnessMultiple ==
    /\ pc = "done"
    /\ number_iterations(script) % flush_every(script) = 0
    /\ tick0.vehicles # vehicles
    /\ Range(vehicles) # Range(tick0.vehicles)
    /\ FileRecords("vehicles") = Range(vehicles)

\* The position in the log of the vehicles call of the current tick
LastVehicleCall ==
    CHOOSE k \in DOMAIN requests :
        /\ IsVehicleCall(requests[k])
        /\ \A j \in (k + 1)..Len(requests) : ~IsVehicleCall(requests[j])

\* The ids of the vehicle entries a response lists, in its order
ListedIds(resp) ==
    IF HasList(resp, "vehicle")
    THEN [j \in DOMAIN resp.body["bustime-response"]["vehicle"] |->
             resp.body["bustime-response"]["vehicle"][j].vid]
    ELSE <<>>

\* The ids the calls after the tick's vehicles call asked for, in call order
IdsAskedThisTick ==
    Concat([k \in 1..(Len(requests) - LastVehicleCall) |->
               GroupOf(requests[LastVehicleCall + k])])

WrittenAtTick(t) == {k \in DOMAIN writes : writes[k].tick = t}

\* C15: the steps of a tick come in a fixed order: one vehicles call; then
\* the prediction calls, group after group, for exactly the vehicle ids that
\* this call returned; then the appends to the buffers; then the flush when
\* one is due; then the sleep. No call of the next tick is made before the
\* sleep of this one has ended.
C15_TickOrder ==
    /\ Len(VehicleCalls) = (IF pc \in {"get_vehicles", "report", "done"} THEN i ELSE i + 1)
    /\ requests # <<>>
       => /\ \A k \in (LastVehicleCall + 1)..Len(requests) : IsPredictionCall(requests[k])
          /\ \A k \in (LastVehicleCall + 1)..(Len(requests) - 1) :
                Len(GroupOf(requests[k])) = GroupSize
          /\ IsPrefix(IdsAskedThisTick, ListedIds(requests[LastVehicleCall].response))
          /\ (script = "gather_predictions"
                /\ pc \notin {"get_predictions_for_vehicles", "aborted"})
             => IdsAskedThisTick = ListedIds(requests[LastVehicleCall].response)
    /\ pc = "get_predictions_for_vehicles"
       => /\ vehicles = tick0.vehicles
          /\ predictions = tick0.predictions
          /\ WrittenAtTick(i + 1) = {}
    /\ pc = "append_vehicles"
       => /\ vehicles = tick0.vehicles
          /\ script = "gather_predictions"
             => predictions = tick0.predictions \o total_predictions
          /\ WrittenAtTick(i + 1) = {}
    /\ pc = "flush"
       => /\ vehicles = tick0.vehicles \o vehicles_now
          /\ WrittenAtTick(i + 1) = {}
    /\ pc = "sleep"
       => /\ vehicles = tick0.vehicles \o vehicles_now
          /\ WrittenAtTick(i + 1) # {} <=> FlushDue(script, i)
          /\ \A k \in WrittenAtTick(i + 1) :
                writes[k].buffered = Len(Buffer(writes[k].kind))

\* gather_predictions.py sleeps after a tick with a flush: the tick's
\* vehicles call returned two vehicles that are not the first two of the
\* buffer, and the predictions call that followed asked for these two
C15_Witness ==
    /\ script = "gather_predictions"
    /\ pc = "sleep"
    /\ WrittenAtTick(i + 1) # {}
    /\ Len(vehicles_now) > 1
    /\ tick0.vehicles # <<>>
    /\ vehicles_now[1].id # tick0.vehicles[1].id
    /\ IdsAskedThisTick = <<vehicles_now[1].id, vehicles_now[2].id>>
    /\ Len(predictions) > Len(tick0.predictions)

\* The ids of the k-th group of ten of the vehicles passed to
\* get_predictions_for_vehicles
IdsOfGroup(k) ==
    LET group == Group(vehicles_now, (k - 1) * GroupSize) IN
    [j \in DOMAIN group |-> group[j].id]

\* C16: get_predictions_for_vehicles calls the groups in their order and
\* its result is the groups' results one after the other in that order;
\* within a group the arrival entries kept come in the order of the
\* response.
C16_ResultsInGroupOrder ==
    pc # "aborted"
    => /\ \A k \in DOMAIN PredictionCalls : GroupOf(PredictionCalls[k]) = IdsOfGroup(k)
       /\ total_predictions
             = Concat([k \in DOMAIN PredictionCalls |->
                          Contribution(PredictionCalls[k].response)])
       /\ \A a, b \in DOMAIN total_predictions :
             (a < b /\ total_predictions[a].vehicle_id # total_predictions[b].vehicle_id)
             => \E j, k \in DOMAIN PredictionCalls :
                   /\ j < k
                   /\ total_predictions[a] \in Range(Contribution(PredictionCalls[j].response))
                   /\ total_predictions[b] \in Range(Contribution(PredictionCalls[k].response))

\* The function has returned after three group calls: the first group's
\* response listed an arrival for stop s2, a departure and an arrival for
\* stop s1, the third group's an arrival, and the result holds them in this
\* order
C16_Witness ==
    /\ pc = "append_vehicles"
    /\ Len(PredictionCalls) = 3
    /\ Len(total_predictions) = 3
    /\ total_predictions[1].stop_id = "s2" /\ total_predictions[1].vehicle_id = "1"
    /\ total_predictions[2].stop_id = "s1" /\ total_predictions[2].vehicle_id = "1"
    /\ total_predictions[3].vehicle_id = "21"

\* The answer to the tick's vehicles call has the envelope and no vehicle
\* list
VehicleListAbsent(resp) ==
    /\ resp.status_code = 200
    /\ "bustime-response" \in DOMAIN resp.body
    /\ "vehicle" \notin DOMAIN resp.body["bustime-response"]

\* The answer has a vehicle list with an entry that lacks a field of the
\* record
VehicleEntryIncomplete(resp) ==
    /\ HasList(resp, "vehicle")
    /\ \E v \in Entries(resp, "vehicle") : ~(VehicleKeys \subseteq DOMAIN v)

\* C17: a vehicle entry that lacks a field of the record makes get_vehicles
\* fail with an error, with no empty or partial result; an answer without
\* the vehicle list makes it return the empty sequence without an error.
C17_IncompleteEntryRaises ==
    requests # <<>>
    => LET resp == requests[LastVehicleCall].response IN
       /\ VehicleEntryIncomplete(resp)
          => /\ pc = "aborted"
             /\ error = Aborted("KeyError", "get_vehicles")
             /\ LastVehicleCall = Len(requests)
             /\ vehicles = tick0.vehicles
       /\ VehicleListAbsent(resp)
          => /\ error.at # "get_vehicles"
             /\ vehicles_now = <<>>
             /\ vehicles = tick0.vehicles

\* A tick whose answer had no vehicle list was followed by a tick whose
\* answer had an incomplete entry: the first went on, the second ended the
\* script
C17_Witness ==
    /\ pc = "aborted"
    /\ error = Aborted("KeyError", "get_vehicles")
    /\ Len(VehicleCalls) > 1
    /\ VehicleListAbsent(VehicleCalls[Len(VehicleCalls) - 1].response)
    /\ VehicleEntryIncomplete(VehicleCalls[Len(VehicleCalls)].response)

\* The characters of a timestamp in the order Python compares them
Characters == <<" ", "0", "1", "2", "3", "4", "5", "6", "7", "8", "9", ":", "@">>

Ord(c) == CHOOSE k \in DOMAIN Characters : Characters[k] = c

\* s < t for strings, as Python compares them
RECURSIVE Before(_, _)
Before(s, t) ==
    IF t = <<>> THEN FALSE
    ELSE IF s = <<>> THEN TRUE
    ELSE IF Head(s) = Head(t) THEN Before(Tail(s), Tail(t))
    ELSE Ord(Head(s)) < Ord(Head(t))

\* The timestamps of the records a write put into its file
TimestampsOf(w) == {w.rows[k].row.timestamp : k \in DOMAIN w.rows}

Earliest(ts) == CHOOSE t \in ts : \A u \in ts : ~Before(u, t)

Latest(ts) == CHOOSE t \in ts : \A u \in ts : ~Before(t, u)

\* C18: in gather_bus_updates.py the from-part of a checkpoint file's name
\* is the minimum and the to-part the maximum of the timestamps of the
\* records the vehicle buffer holds at the flush.
C18_NameIsTimestampRange ==
    script = "gather_bus_updates"
    => \A k \in DOMAIN writes :
          writes[k].name = RangeFileName(Replace(Earliest(TimestampsOf(writes[k]))),
                                         Replace(Latest(TimestampsOf(writes[k]))))

\* V_t: the number of vehicles the vehicles call of tick t returned
VehiclesReturned(t) == Len(ListedIds(VehicleCalls[t].response))

\* The sum over the ticks 1..k of ceil(V_t / 10)
RECURSIVE GroupCalls(_)
GroupCalls(k) ==
    IF k = 0 THEN 0
    ELSE GroupCalls(k - 1) + (VehiclesReturned(k) + GroupSize - 1) \div GroupSize

\* The ticks whose calls have all been made
TicksCalled ==
    IF pc \in {"get_vehicles", "report", "done"} THEN i ELSE i + 1

\* C19: when the calls of k ticks have been made the call counter is k plus
\* the sum over these ticks of ceil(V_t / 10) in gather_predictions.py and
\* k in gather_bus_updates.py, whatever the calls were answered with, and
\* the count printed at the exit is the counter: totalTicks in
\* gather_bus_updates.py.
C19_CounterIsTicksPlusGroups ==
    /\ pc \notin {"get_predictions_for_vehicles", "aborted"}
       => CALLS_COUNT = TicksCalled
                        + (IF script = "gather_predictions"
                           THEN GroupCalls(TicksCalled) ELSE 0)
    /\ pc = "aborted" /\ error.at # "get_predictions"
       => CALLS_COUNT = i + 1 + (IF script = "gather_predictions"
                                 THEN GroupCalls(i) ELSE 0)
    /\ pc = "done"
       => /\ printed = <<CALLS_COUNT>>
          /\ script = "gather_bus_updates" => printed = <<number_iterations(script)>>

\* gather_predictions.py has printed its count after a run with a tick of
\* more than ten vehicles, a tick whose vehicles call failed and a
\* predictions call that failed
C19_Witness ==
    /\ pc = "done"
    /\ script = "gather_predictions"
    /\ \E t \in DOMAIN VehicleCalls : VehiclesReturned(t) > GroupSize
    /\ \E t \in DOMAIN VehicleCalls : Failed(VehicleCalls[t].response)
    /\ \E k \in DOMAIN PredictionCalls : Failed(PredictionCalls[k].response)
    /\ printed[1] > number_iterations(script) + 1

============================================================================
